---- MODULE Spec2Model ----
(***************************************************************************)
(* Model of src/logger.py: three output strategies (ConsoleLogger,         *)
(* FileLogger, JSONLogger), the factory create_logger and the Logger that  *)
(* formats a line and delegates it to its current strategy.                *)
(*                                                                         *)
(* The environment is the local wall clock read by datetime.now() and the  *)
(* two files "app.log" and "logs.json", whose content at start-up is       *)
(* whatever an earlier run (or anybody else) left there.                   *)
(*                                                                         *)
(* A text line is kept as the record of the three fields the f-string      *)
(* "[{timestamp}] {level}: {message}" is built from; stdout and app.log    *)
(* are sequences of newline-terminated lines.                              *)
(***************************************************************************)
EXTENDS Integers, Sequences, FiniteSets, TLC

\* ------------------------------------------------------------- bounds ---
MaxWrites == 2        \* write calls made on backends in one behaviour
MaxBackends == 2      \* backend instances create_logger has returned
MaxClock == 2         \* clock readings 0..MaxClock, in sub-second ticks
MaxPrior == 1         \* lines / entries the files hold at start-up
TicksPerSecond == 2   \* clock ticks in one second of strftime's resolution

Loggers == {1, 2}
Recognized == {"console", "file", "json"}
Readings == 0..MaxClock
Names == Recognized \cup {"bogus"}
Classes == {"ConsoleLogger", "FileLogger", "JSONLogger"}
Levels == {"INFO", "DEBUG"}
\* No code inspects the message: it is carried into the text as it is, so one
\* value stands for all; the lines of different calls differ in level and time
Messages == {"App started"}

VARIABLES
  backends,   \* backends[i]: the class of the i-th instance create_logger made
  strategy,   \* strategy[lg]: Logger.strategy, 0 while lg is not constructed
  stdout,     \* lines printed on standard output
  appLog,     \* the file "app.log"
  jsonFile,   \* the file "logs.json"
  clock,      \* the local wall clock: the latest reading datetime.now() gave
  writes,     \* the write calls made on backends so far, in call order
  raised,     \* the exception the most recent call let escape (or none)
  appLog0,    \* content of "app.log" at start-up
  jsonFile0   \* content of "logs.json" at start-up

vars == <<backends, strategy, stdout, appLog, jsonFile, clock, writes,
          raised, appLog0, jsonFile0>>

\* ------------------------------------------------------------ values ---
NoError == [type |-> "none", arg |-> ""]
ValueError(log_type) == [type |-> "ValueError", arg |-> log_type]
JSONDecodeError == [type |-> "JSONDecodeError", arg |-> "logs.json"]
AttributeError == [type |-> "AttributeError", arg |-> "append"]

\* datetime.strftime("%Y-%m-%d %H:%M:%S"): the reading cut to whole seconds
Strftime(t) == t \div TicksPerSecond

\* datetime.isoformat(): whole seconds and the sub-second fraction
Isoformat(t) == [sec |-> t \div TicksPerSecond, frac |-> t % TicksPerSecond]

\* f"[{timestamp}] {level}: {message}"
formatted_message(t, level, message) ==
  [ts |-> Strftime(t), level |-> level, message |-> message]

\* the dict JSONLogger.write builds
log_entry(now, message) == [timestamp |-> Isoformat(now), message |-> message]

\* what the files may hold before the program starts
OldLine == [ts |-> 0, level |-> "OLD", message |-> "old"]
OldEntry == [timestamp |-> Isoformat(0), message |-> OldLine]
RECURSIVE Repeat(_, _)
Repeat(x, n) == IF n = 0 THEN <<>> ELSE Append(Repeat(x, n - 1), x)

AppLogAbsent == [exists |-> FALSE, lines |-> <<>>]
AppLogHolding(k) == [exists |-> TRUE, lines |-> Repeat(OldLine, k)]
JsonAbsent == [state |-> "absent", entries |-> <<>>]
JsonMalformed == [state |-> "malformed", entries |-> <<>>]
JsonObject == [state |-> "object", entries |-> <<>>]
JsonArray(k) == [state |-> "array", entries |-> Repeat(OldEntry, k)]

\* No call touches both files, so their start-up contents are paired, not
\* multiplied: <<content of app.log, content of logs.json>>
StartUpFiles ==
  {<<AppLogAbsent, JsonAbsent>>,
   <<AppLogHolding(0), JsonMalformed>>,
   <<AppLogAbsent, JsonObject>>}
    \cup {<<AppLogHolding(k), JsonArray(k)>> : k \in 1..MaxPrior}

\* ------------------------------------------------------- strategies ----
\* ConsoleLogger.write: print(message)
ConsoleLogger_write(out, message) == Append(out, message)

\* FileLogger.write had it opened the file with mode "w"
FileLogger_write_truncating(file, message) ==
  [exists |-> TRUE, lines |-> <<message>>]

\* FileLogger.write: open("app.log", "a"), write(message + "\n")
FileLogger_write(file, message) ==
  [exists |-> TRUE, lines |-> Append(file.lines, message)]

\* JSONLogger.write had it not read the file back before the dump
JSONLogger_write_fresh(file, now, message) ==
  IF file.state = "malformed"
  THEN [file |-> file, raised |-> JSONDecodeError]
  ELSE IF file.state = "object"
  THEN [file |-> file, raised |-> AttributeError]
  ELSE [file |-> [state |-> "array", entries |-> <<log_entry(now, message)>>],
        raised |-> NoError]

\* JSONLogger.write had it caught every exception of the read, not only
\* FileNotFoundError
JSONLogger_write_except_all(file, now, message) ==
  IF file.state = "object"
  THEN [file |-> file, raised |-> AttributeError]
  ELSE LET logs == IF file.state = "array" THEN file.entries ELSE <<>>
       IN [file |-> [state |-> "array",
                     entries |-> Append(logs, log_entry(now, message))],
           raised |-> NoError]

\* JSONLogger.write: load the array (an absent file is []), append, dump
JSONLogger_write(file, now, message) ==
  IF file.state = "malformed"
  THEN [file |-> file, raised |-> JSONDecodeError]
  ELSE IF file.state = "object"
  THEN [file |-> file, raised |-> AttributeError]
  ELSE LET logs == IF file.state = "absent" THEN <<>> ELSE file.entries
       IN [file |-> [state |-> "array",
                     entries |-> Append(logs, log_entry(now, message))],
           raised |-> NoError]

\* -------------------------------------------------------- factory ------
\* create_logger had its "file" branch returned JSONLogger()
create_logger_swapped(log_type) ==
  IF log_type = "console" THEN [raised |-> NoError, class |-> "ConsoleLogger"]
  ELSE IF log_type = "file" THEN [raised |-> NoError, class |-> "JSONLogger"]
  ELSE IF log_type = "json" THEN [raised |-> NoError, class |-> "JSONLogger"]
  ELSE [raised |-> ValueError(log_type), class |-> "none"]

\* create_logger had its else branch fallen back to ConsoleLogger()
create_logger_default(log_type) ==
  IF log_type = "file" THEN [raised |-> NoError, class |-> "FileLogger"]
  ELSE IF log_type = "json" THEN [raised |-> NoError, class |-> "JSONLogger"]
  ELSE [raised |-> NoError, class |-> "ConsoleLogger"]

\* create_logger had its else branch returned None
create_logger_none(log_type) ==
  IF log_type = "console" THEN [raised |-> NoError, class |-> "ConsoleLogger"]
  ELSE IF log_type = "file" THEN [raised |-> NoError, class |-> "FileLogger"]
  ELSE IF log_type = "json" THEN [raised |-> NoError, class |-> "JSONLogger"]
  ELSE [raised |-> NoError, class |-> "none"]

create_logger(log_type) ==
  IF log_type = "console" THEN [raised |-> NoError, class |-> "ConsoleLogger"]
  ELSE IF log_type = "file" THEN [raised |-> NoError, class |-> "FileLogger"]
  ELSE IF log_type = "json" THEN [raised |-> NoError, class |-> "JSONLogger"]
  ELSE [raised |-> ValueError(log_type), class |-> "none"]

\* a call of create_logger: the instance it returns is a new one
CallCreateLogger(log_type) ==
  LET r == create_logger(log_type) IN
  /\ raised' = r.raised
  /\ IF r.raised = NoError
     THEN /\ Len(backends) < MaxBackends
          /\ backends' = Append(backends, r.class)
     ELSE /\ backends' = backends
  /\ UNCHANGED <<strategy, stdout, appLog, jsonFile, clock, writes>>

\* --------------------------------------------------------- Logger ------
\* Logger.__init__
Logger_init(lg, b) ==
  /\ strategy[lg] = 0
  /\ strategy' = [strategy EXCEPT ![lg] = b]
  /\ raised' = NoError
  /\ UNCHANGED <<backends, stdout, appLog, jsonFile, clock, writes>>

\* Logger.change_output had it not assigned self.strategy
change_output_ignored(lg, b) ==
  /\ strategy[lg] # 0
  /\ raised' = NoError
  /\ UNCHANGED <<backends, strategy, stdout, appLog, jsonFile, clock, writes>>

\* Logger.change_output
change_output(lg, b) ==
  /\ strategy[lg] # 0
  /\ strategy' = [strategy EXCEPT ![lg] = b]
  /\ raised' = NoError
  /\ UNCHANGED <<backends, stdout, appLog, jsonFile, clock, writes>>

\* self.strategy.write(message) on instance b, called at clock reading t;
\* JSONLogger.write reads the clock itself and gets `now`
strategy_write(b, message, t, now) ==
  /\ writes' = Append(writes, [backend |-> b, text |-> message])
  /\ IF backends[b] = "ConsoleLogger"
     THEN /\ stdout' = ConsoleLogger_write(stdout, message)
          /\ raised' = NoError
          /\ clock' = t
          /\ UNCHANGED <<appLog, jsonFile>>
     ELSE IF backends[b] = "FileLogger"
     THEN /\ appLog' = FileLogger_write(appLog, message)
          /\ raised' = NoError
          /\ clock' = t
          /\ UNCHANGED <<stdout, jsonFile>>
     ELSE IF backends[b] = "JSONLogger"
     THEN /\ jsonFile' = JSONLogger_write(jsonFile, now, message).file
          /\ raised' = JSONLogger_write(jsonFile, now, message).raised
          /\ clock' = now
          /\ UNCHANGED <<stdout, appLog>>
     ELSE /\ raised' = AttributeError    \* an object without a write method
          /\ clock' = t
          /\ UNCHANGED <<stdout, appLog, jsonFile>>

\* Logger.log had it filtered by level and dropped DEBUG lines
log_filtered(lg, level, message, t) ==
  /\ strategy[lg] # 0
  /\ Len(writes) < MaxWrites
  /\ IF level = "DEBUG"
     THEN /\ clock' = t
          /\ raised' = NoError
          /\ UNCHANGED <<stdout, appLog, jsonFile, writes>>
     ELSE \E now \in {t, t + 1} :
            /\ now <= MaxClock
            /\ strategy_write(strategy[lg],
                              formatted_message(t, level, message), t, now)
  /\ UNCHANGED <<backends, strategy>>

\* Logger.log. t is what datetime.now() returns: the local wall clock, which
\* has moved on since the latest reading (t >= clock) or has been set back
\* (t < clock). Until JSONLogger.write reads it again it moves on by at most
\* one tick.
log(lg, level, message, t) ==
  /\ strategy[lg] # 0
  /\ Len(writes) < MaxWrites
  /\ \E now \in {t, t + 1} :
       /\ now <= MaxClock
       /\ strategy_write(strategy[lg],
                         formatted_message(t, level, message), t, now)
  /\ UNCHANGED <<backends, strategy>>

\* Logger.info, Logger.error, Logger.warning
info(lg, message, t) == log(lg, "INFO", message, t)
error(lg, message, t) == log(lg, "ERROR", message, t)
\* Logger.warning had it been pasted from Logger.error with the level kept
warning_as_error(lg, message, t) == log(lg, "ERROR", message, t)
warning(lg, message, t) == log(lg, "WARNING", message, t)

\* ---------------------------------------------------- specification ----
Init ==
  /\ backends = <<>>
  /\ strategy = [lg \in Loggers |-> 0]
  /\ stdout = <<>>
  /\ \E f \in StartUpFiles : appLog = f[1] /\ jsonFile = f[2]
  /\ clock = 0
  /\ writes = <<>>
  /\ raised = NoError
  /\ appLog0 = appLog
  /\ jsonFile0 = jsonFile

DoCreate ==
  /\ \E log_type \in Names : CallCreateLogger(log_type)
  /\ UNCHANGED <<appLog0, jsonFile0>>

DoInit ==
  /\ \E lg \in Loggers, b \in 1..Len(backends) : Logger_init(lg, b)
  /\ UNCHANGED <<appLog0, jsonFile0>>

DoChangeOutput ==
  /\ \E lg \in Loggers, b \in 1..Len(backends) : change_output(lg, b)
  /\ UNCHANGED <<appLog0, jsonFile0>>

DoLog ==
  /\ \E lg \in Loggers, level \in Levels, message \in Messages, t \in Readings :
       log(lg, level, message, t)
  /\ UNCHANGED <<appLog0, jsonFile0>>

DoInfo ==
  /\ \E lg \in Loggers, message \in Messages, t \in Readings :
       info(lg, message, t)
  /\ UNCHANGED <<appLog0, jsonFile0>>

DoWarning ==
  /\ \E lg \in Loggers, message \in Messages, t \in Readings :
       warning(lg, message, t)
  /\ UNCHANGED <<appLog0, jsonFile0>>

DoError ==
  /\ \E lg \in Loggers, message \in Messages, t \in Readings :
       error(lg, message, t)
  /\ UNCHANGED <<appLog0, jsonFile0>>

Next ==
  \/ DoCreate
  \/ DoInit
  \/ DoChangeOutput
  \/ DoLog
  \/ DoInfo
  \/ DoWarning
  \/ DoError

Spec == Init /\ [][Next]_vars

\* ------------------------------------------------------- properties ----
\* order of two isoformat strings: date and time first, then the fraction
IsoLeq(a, b) == a.sec < b.sec \/ (a.sec = b.sec /\ a.frac <= b.frac)
AllLevels == Levels \cup {"INFO", "WARNING", "ERROR"}
Last(seq) == seq[Len(seq)]
IsPrefix(p, q) == Len(p) <= Len(q) /\ SubSeq(q, 1, Len(p)) = p
Texts(ws) == [i \in 1..Len(ws) |-> ws[i].text]
MessagesOf(es) == [i \in 1..Len(es) |-> es[i].message]
OneWriteMore ==
  Len(writes') = Len(writes) + 1 /\ SubSeq(writes', 1, Len(writes)) = writes
DestinationsUnchanged ==
  stdout' = stdout /\ appLog' = appLog /\ jsonFile' = jsonFile
WritesOn(class) ==
  SelectSeq(writes, LAMBDA w : backends[w.backend] = class)

\* C1: change_output(B) makes B the Logger's strategy without touching any
\* output already produced; from then on each log call of that Logger makes
\* its write on the strategy it holds (B, until the next change_output, the
\* only step that replaces a constructed Logger's strategy), leaves the other
\* destinations as they are and only extends what a destination already holds.
C1_ChangeOutputRedirects ==
  [][ /\ \A lg \in Loggers, b \in 1..Len(backends) :
           change_output(lg, b) =>
             /\ strategy'[lg] = b
             /\ \A other \in Loggers \ {lg} : strategy'[other] = strategy[other]
             /\ writes' = writes
             /\ DestinationsUnchanged
      /\ \A lg \in Loggers, level \in AllLevels, message \in Messages,
            t \in Readings :
           log(lg, level, message, t) =>
             /\ OneWriteMore
             /\ Last(writes').backend = strategy[lg]
             /\ strategy' = strategy
             /\ backends[strategy[lg]] # "ConsoleLogger" => stdout' = stdout
             /\ backends[strategy[lg]] # "FileLogger" => appLog' = appLog
             /\ backends[strategy[lg]] # "JSONLogger" => jsonFile' = jsonFile
             /\ IsPrefix(stdout, stdout')
             /\ IsPrefix(appLog.lines, appLog'.lines)
             /\ jsonFile.state = "array" =>
                  /\ jsonFile'.state = "array"
                  /\ IsPrefix(jsonFile.entries, jsonFile'.entries)
      /\ \A lg \in Loggers :
           (strategy[lg] # 0 /\ strategy'[lg] # strategy[lg]) =>
             \E b \in 1..Len(backends) : change_output(lg, b)
    ]_vars

\* C1 witness: one Logger wrote on instance 1 (a FileLogger), was switched to
\* instance 2 (a ConsoleLogger) and wrote again: the second line is on stdout
\* and app.log holds the first line only.
C1_Witness ==
  /\ strategy[1] = 2 /\ strategy[2] = 0
  /\ backends = <<"FileLogger", "ConsoleLogger">>
  /\ Len(writes) = 2
  /\ writes[1].backend = 1 /\ writes[2].backend = 2
  /\ stdout = <<writes[2].text>>
  /\ appLog.lines = Append(appLog0.lines, writes[1].text)

\* C2: one log(L, M) at clock reading t makes exactly one write call, on the
\* Logger's strategy, with the text built from t cut to whole seconds, L and
\* M, for every level L, and it leaves every Logger's strategy as it was.
C2_LogWritesOnce ==
  [][ \A lg \in Loggers, level \in AllLevels, message \in Messages,
         t \in Readings :
        log(lg, level, message, t) =>
          /\ OneWriteMore
          /\ Last(writes').backend = strategy[lg]
          /\ Last(writes').text.ts = t \div TicksPerSecond
          /\ Last(writes').text.level = level
          /\ Last(writes').text.message = message
          /\ strategy' = strategy
          /\ backends' = backends
    ]_vars

\* C2 witness: a DEBUG line, which only log itself can produce, read at a
\* clock reading past the first second, has been written.
C2_Witness ==
  /\ Len(writes) >= 1
  /\ Last(writes).text = [ts |-> 1, level |-> "DEBUG", message |-> "App started"]
  /\ backends[Last(writes).backend] = "ConsoleLogger"
  /\ clock = MaxClock

\* C3: every step of info(M), warning(M), error(M) is a step of
\* log("INFO", M), log("WARNING", M), log("ERROR", M) of the same Logger at
\* the same clock reading: the same write with the same text and the same
\* resulting state.
C3_ShortcutsAreLog ==
  [][ \A lg \in Loggers, message \in Messages, t \in Readings :
        /\ info(lg, message, t) =>
             /\ log(lg, "INFO", message, t)
             /\ Last(writes').text.level = "INFO"
             /\ Last(writes').text.message = message
        /\ warning(lg, message, t) =>
             /\ log(lg, "WARNING", message, t)
             /\ Last(writes').text.level = "WARNING"
             /\ Last(writes').text.message = message
        /\ error(lg, message, t) =>
             /\ log(lg, "ERROR", message, t)
             /\ Last(writes').text.level = "ERROR"
             /\ Last(writes').text.message = message
    ]_vars

\* C3 witness: warning and error have both written (log is never called with
\* these two levels directly).
C3_Witness ==
  /\ Len(writes) = 2
  /\ writes[1].text.level = "WARNING"
  /\ writes[2].text.level = "ERROR"

\* C4: create_logger of a recognized name returns a new instance of the
\* matching class, raises nothing and leaves stdout and both files untouched.
C4_FactoryCreatesVariant ==
  [][ \A log_type \in Recognized :
        CallCreateLogger(log_type) =>
          /\ backends' = Append(backends,
                                CASE log_type = "console" -> "ConsoleLogger"
                                  [] log_type = "file" -> "FileLogger"
                                  [] log_type = "json" -> "JSONLogger")
          /\ raised' = NoError
          /\ DestinationsUnchanged
          /\ writes' = writes
          /\ strategy' = strategy
    ]_vars

\* C4 witness: a FileLogger and a JSONLogger have been created and both files
\* are still absent.
C4_Witness ==
  /\ backends = <<"FileLogger", "JSONLogger">>
  /\ ~appLog.exists
  /\ jsonFile.state = "absent"
  /\ writes = <<>>

\* C5: create_logger of an unrecognized name raises ValueError carrying the
\* name, creates no instance and leaves stdout and both files untouched.
C5_FactoryRejectsUnknown ==
  [][ \A log_type \in Names \ Recognized :
        CallCreateLogger(log_type) =>
          /\ raised' = [type |-> "ValueError", arg |-> log_type]
          /\ backends' = backends
          /\ DestinationsUnchanged
          /\ writes' = writes
          /\ strategy' = strategy
    ]_vars

\* C5 witness: create_logger("bogus") has just failed.
C5_Witness == raised = [type |-> "ValueError", arg |-> "bogus"]

\* C6: app.log holds its start-up lines followed by the text of every write
\* made on a FileLogger, one line per call, in call order.
C6_FileAppends ==
  /\ appLog.lines = appLog0.lines \o Texts(WritesOn("FileLogger"))
  /\ appLog.exists = (appLog0.exists \/ WritesOn("FileLogger") # <<>>)

\* C6 witness: the file held a line at start-up and two different lines were
\* written through two FileLogger instances.
C6_Witness ==
  /\ appLog0.lines # <<>>
  /\ Len(WritesOn("FileLogger")) = 2
  /\ writes[1].backend # writes[2].backend
  /\ writes[1].text # writes[2].text

\* C7: from an absent logs.json or one holding an array of K entries, the file
\* holds the K entries unchanged followed by one entry per write made on a
\* JSONLogger, in call order, each with that write's text as its message.
C7_JsonAppendOnly ==
  jsonFile0.state \in {"absent", "array"} =>
    /\ jsonFile.state = "absent" => (jsonFile = jsonFile0 /\ WritesOn("JSONLogger") = <<>>)
    /\ jsonFile.state \in {"absent", "array"}
    /\ Len(jsonFile.entries) = Len(jsonFile0.entries) + Len(WritesOn("JSONLogger"))
    /\ IsPrefix(jsonFile0.entries, jsonFile.entries)
    /\ MessagesOf(jsonFile.entries) =
         MessagesOf(jsonFile0.entries) \o Texts(WritesOn("JSONLogger"))

\* C7 witness: the array held an entry at start-up and two different lines
\* were logged through a JSONLogger.
C7_Witness ==
  /\ jsonFile0.state = "array" /\ jsonFile0.entries # <<>>
  /\ Len(WritesOn("JSONLogger")) = 2
  /\ writes[1].text # writes[2].text

\* C8: from an absent logs.json, the timestamp fields of the array are
\* non-decreasing in array order.
C8_TimestampsNonDecreasing ==
  jsonFile0.state = "absent" =>
    \A i \in 1..(Len(jsonFile.entries) - 1) :
      IsoLeq(jsonFile.entries[i].timestamp, jsonFile.entries[i + 1].timestamp)

\* C9: a log call through a JSONLogger while logs.json is malformed raises
\* the decode error once: one write call was made, the file and the other
\* destinations are as before and every Logger keeps its strategy; an absent
\* file is taken as the empty array.
C9_MalformedPropagates ==
  [][ \A lg \in Loggers, level \in AllLevels, message \in Messages,
         t \in Readings :
        (log(lg, level, message, t) /\ backends[strategy[lg]] = "JSONLogger") =>
          /\ jsonFile.state = "malformed" =>
               /\ raised' = JSONDecodeError
               /\ jsonFile' = jsonFile
               /\ stdout' = stdout /\ appLog' = appLog
               /\ strategy' = strategy
               /\ OneWriteMore
               /\ Last(writes').backend = strategy[lg]
          /\ jsonFile.state = "absent" =>
               /\ raised' = NoError
               /\ jsonFile'.state = "array"
               /\ Len(jsonFile'.entries) = 1
    ]_vars

\* C9 witness: two log calls through a JSONLogger have failed on the
\* malformed file, which is as it was.
C9_Witness ==
  /\ jsonFile0.state = "malformed"
  /\ Len(WritesOn("JSONLogger")) = 2
  /\ raised = JSONDecodeError
  /\ jsonFile = jsonFile0

====
